---- MODULE Spec2Model ----
(***************************************************************************)
(* Model of src/lambda/index.py: the Lambda entry point handler(event,     *)
(* context).  One invocation is a straight line of four statements (lines  *)
(* 4, 5, 7 and 9).  Every name a statement uses is looked up in the module *)
(* namespace and then in the builtins, as CPython does at run time; the    *)
(* module only binds `json` (line 1) and `handler` (line 3).               *)
(*                                                                         *)
(* Several invocations may be in flight at once, in one or several         *)
(* processes (containers); each process has its own environment and its    *)
(* own module namespace, and all of them write to one log sink.            *)
(***************************************************************************)
EXTENDS Integers, Sequences, FiniteSets, TLC

\* ---------------------------------------------------------------- bounds
MaxInv == 2
NumContainers == 2

Invs == 1..MaxInv
Containers == 1..NumContainers

\* ------------------------------------------------------------ input sets
EmptyEvent == "{}"
UploadEvent == "{Records: [s3:ObjectCreated:Put]}"
Events == {EmptyEvent, UploadEvent}

EmptyContext == "{}"
LambdaContext == "LambdaContext(aws_request_id)"
Contexts == {EmptyContext, LambdaContext}

NoArg == "<not invoked>"

SecretKey == "SECRETS_MANAGER_ARN"
ArnFoo == "arn:aws:secretsmanager:us-east-1:123456789012:secret:foo"
EnvKeys == {SecretKey}
EnvValues == {ArnFoo, ""}

\* os.environ of one process: a mapping from some of the keys to strings
Environs == UNION {[S -> EnvValues] : S \in SUBSET EnvKeys}
EmptyEnviron == [k \in {} |-> ""]

\* ------------------------------------------------------- Python values
PyNone == [kind |-> "NoneType", val |-> ""]
PyStr(s) == [kind |-> "str", val |-> s]
Unbound == [kind |-> "unbound", val |-> ""]

\* str(v), as an f-string placeholder formats it
Format(v) == IF v.kind = "NoneType" THEN "None" ELSE v.val

\* f"Secret ARN: {secret_arn}"
SecretLine(v) == "Secret ARN: " \o Format(v)

UploadLine == "File uploaded"

\* json.dumps of a string that needs no escaping
JsonDumps(s) == "\"" \o s \o "\""

\* dict.get(key): the value, or None when the key is absent
EnvironGet(env, key) == IF key \in DOMAIN env THEN PyStr(env[key]) ELSE PyNone

\* ------------------------------------------------------------ namespaces
\* names bound at module level by index.py: `import json`, `def handler`
ModuleGlobals == {"json", "handler"}

\* the builtins the handler uses
Builtins == {"print"}

\* ------------------------------------------------------------- outcomes
Pending == [kind |-> "pending", exc |-> "", statusCode |-> 0, body |-> ""]
Raised(e) == [kind |-> "raised", exc |-> e, statusCode |-> 0, body |-> ""]
Returned(code, b) == [kind |-> "returned", exc |-> "", statusCode |-> code, body |-> b]

SuccessResponse == Returned(200, JsonDumps("Success"))

VARIABLES environ, globals, inv, log

vars == <<environ, globals, inv, log>>

IdleInv == [pc |-> "idle", container |-> 1, event |-> NoArg, context |-> NoArg,
            secret_arn |-> Unbound, outcome |-> Pending]

\* LOAD_GLOBAL: module namespace first, then builtins
Resolves(c, name) == name \in globals[c] \cup Builtins

Init ==
    /\ environ \in [Containers -> Environs]
    /\ globals = [c \in Containers |-> ModuleGlobals]
    /\ inv = [p \in Invs |-> IdleInv]
    /\ log = <<>>

\* the host calls handler(ev, ctx) in process c; invocations are numbered in
\* the order they start
Invoke(p, c, ev, ctx) ==
    /\ inv[p].pc = "idle"
    /\ \A q \in Invs : q < p => inv[q].pc # "idle"
    /\ inv' = [inv EXCEPT ![p] = [pc |-> "L4", container |-> c, event |-> ev,
                                  context |-> ctx, secret_arn |-> Unbound,
                                  outcome |-> Pending]]
    /\ UNCHANGED <<environ, globals, log>>

RaiseIn(p, e) == [inv EXCEPT ![p].pc = "done", ![p].outcome = Raised(e)]

\* line 4 with a write to the environment added (clears os.environ)
Line4ClearsEnviron(p) ==
    /\ log' = Append(log, [inv |-> p, line |-> UploadLine])
    /\ inv' = [inv EXCEPT ![p].pc = "L5"]
    /\ environ' = [environ EXCEPT ![inv[p].container] = EmptyEnviron]
    /\ UNCHANGED globals

\* line 4: print("File uploaded")
Line4(p) ==
    /\ IF Resolves(inv[p].container, "print")
       THEN /\ log' = Append(log, [inv |-> p, line |-> UploadLine])
            /\ inv' = [inv EXCEPT ![p].pc = "L5"]
       ELSE /\ inv' = RaiseIn(p, "NameError")
            /\ UNCHANGED log
    /\ UNCHANGED <<environ, globals>>

\* line 5 recovering from the failed lookup by binding `os` in the module
\* namespace for later invocations
Line5BindsOs(p) ==
    IF Resolves(inv[p].container, "os")
    THEN /\ inv' = [inv EXCEPT ![p].pc = "L7",
                       ![p].secret_arn = EnvironGet(environ[inv[p].container], SecretKey)]
         /\ UNCHANGED <<environ, globals, log>>
    ELSE /\ inv' = RaiseIn(p, "NameError")
         /\ globals' = [globals EXCEPT ![inv[p].container] = @ \cup {"os"}]
         /\ UNCHANGED <<environ, log>>

\* line 5 reading the locator from the event instead: event["..."]
Line5ReadsEvent(p) ==
    /\ IF inv[p].event = EmptyEvent
       THEN inv' = RaiseIn(p, "KeyError")
       ELSE inv' = [inv EXCEPT ![p].pc = "L7", ![p].secret_arn = PyStr(inv[p].event)]
    /\ UNCHANGED <<environ, globals, log>>

\* line 5 with `os` imported and a subscript instead of .get:
\* os.environ["SECRETS_MANAGER_ARN"]
Line5Subscript(p) ==
    /\ IF SecretKey \in DOMAIN environ[inv[p].container]
       THEN inv' = [inv EXCEPT ![p].pc = "L7",
                       ![p].secret_arn = PyStr(environ[inv[p].container][SecretKey])]
       ELSE inv' = RaiseIn(p, "KeyError")
    /\ UNCHANGED <<environ, globals, log>>

\* line 5: secret_arn = os.environ.get("SECRETS_MANAGER_ARN")
\* the name `os` is looked up first; index.py never imports it
Line5(p) ==
    /\ IF Resolves(inv[p].container, "os")
       THEN inv' = [inv EXCEPT ![p].pc = "L7",
                       ![p].secret_arn = EnvironGet(environ[inv[p].container], SecretKey)]
       ELSE inv' = RaiseIn(p, "NameError")
    /\ UNCHANGED <<environ, globals, log>>

\* line 7: print(f"Secret ARN: {secret_arn}")
Line7(p) ==
    /\ IF Resolves(inv[p].container, "print")
       THEN /\ log' = Append(log, [inv |-> p, line |-> SecretLine(inv[p].secret_arn)])
            /\ inv' = [inv EXCEPT ![p].pc = "L9"]
       ELSE /\ inv' = RaiseIn(p, "NameError")
            /\ UNCHANGED log
    /\ UNCHANGED <<environ, globals>>

\* lines 9-12: return {"statusCode": 200, "body": json.dumps("Success")}
Line9(p) ==
    /\ IF Resolves(inv[p].container, "json")
       THEN inv' = [inv EXCEPT ![p].pc = "done", ![p].outcome = SuccessResponse]
       ELSE inv' = RaiseIn(p, "NameError")
    /\ UNCHANGED <<environ, globals, log>>

\* invocation p executes its next statement
Step(p) ==
    /\ inv[p].pc \in {"L4", "L5", "L7", "L9"}
    /\ CASE inv[p].pc = "L4" -> Line4(p)
         [] inv[p].pc = "L5" -> Line5(p)
         [] inv[p].pc = "L7" -> Line7(p)
         [] inv[p].pc = "L9" -> Line9(p)

Next ==
    \/ \E p \in Invs, c \in Containers, ev \in Events, ctx \in Contexts : Invoke(p, c, ev, ctx)
    \/ \E p \in Invs : Step(p)

Spec == Init /\ [][Next]_vars

\* ------------------------------------------------------------ observers
IsDone(p) == inv[p].pc = "done"

EnvOf(p) == environ[inv[p].container]

\* the lines invocation p has written to the log sink, in order
LinesOf(p) ==
    LET mine == SelectSeq(log, LAMBDA e : e.inv = p)
    IN  [i \in 1..Len(mine) |-> mine[i].line]

TypeOK ==
    /\ environ \in [Containers -> Environs]
    /\ \A p \in Invs : inv[p].pc \in {"idle", "L4", "L5", "L7", "L9", "done"}
    /\ Len(log) <= 2 * MaxInv

\* ----------------------------------------------------------------- claims

TwoLines(p) == <<UploadLine, SecretLine(EnvironGet(EnvOf(p), SecretKey))>>

\* C1: every invocation that ends has returned {statusCode: 200, body:
\* json.dumps("Success")}, whatever the event, the context and the environment.
C1_AlwaysReturnsSuccess ==
    \A p \in Invs : IsDone(p) =>
        /\ inv[p].outcome.kind = "returned"
        /\ inv[p].outcome.statusCode = 200
        /\ inv[p].outcome.body = "\"Success\""
        /\ Len(inv[p].outcome.body) = 9

\* C2: no statement of an invocation raises; an invocation only ends by
\* returning a Response.
C2_NeverRaises ==
    \A p \in Invs : /\ inv[p].outcome.kind # "raised"
                    /\ IsDone(p) => inv[p].outcome.kind = "returned"

\* C3: an invocation that has ended has written exactly two lines, "File
\* uploaded" then "Secret ARN: <value>", and an invocation in flight has
\* written a prefix of those two lines.
C3_TwoLogLinesInOrder ==
    \A p \in Invs :
        /\ IsDone(p) => LinesOf(p) = TwoLines(p)
        /\ inv[p].pc # "idle" =>
              /\ Len(LinesOf(p)) <= 2
              /\ LinesOf(p) = SubSeq(TwoLines(p), 1, Len(LinesOf(p)))

\* C4: with SECRETS_MANAGER_ARN unset, an invocation that has ended raised
\* nothing, read None, logged "Secret ARN: None" as its second line and
\* returned the success Response.
C4_UnsetKeyStillSucceeds ==
    \A p \in Invs : (IsDone(p) /\ SecretKey \notin DOMAIN EnvOf(p)) =>
        /\ inv[p].outcome = SuccessResponse
        /\ inv[p].secret_arn = PyNone
        /\ LinesOf(p) = <<UploadLine, "Secret ARN: None">>

\* C5: with SECRETS_MANAGER_ARN set to v, an invocation that has ended logged
\* "Secret ARN: v" as its second line and returned the success Response.
C5_SetKeyIsLogged ==
    \A p \in Invs : (IsDone(p) /\ SecretKey \in DOMAIN EnvOf(p)) =>
        /\ inv[p].outcome = SuccessResponse
        /\ LinesOf(p) = <<UploadLine, "Secret ARN: " \o EnvOf(p)[SecretKey]>>

\* C6: no step changes the environment or the module namespace of any process,
\* nor the event, context or process of an invocation that has started; a
\* statement of invocation p leaves every other invocation's record alone and
\* only ever appends to the log.
C6_HandlerMutatesNothing ==
    [][/\ environ' = environ
       /\ globals' = globals
       /\ \A p \in Invs : inv[p].pc # "idle" =>
             /\ inv'[p].event = inv[p].event
             /\ inv'[p].context = inv[p].context
             /\ inv'[p].container = inv[p].container
       /\ \A p \in Invs : (inv[p].pc \notin {"idle", "done"} /\ inv'[p] # inv[p]) =>
             \A q \in Invs \ {p} : inv'[q] = inv[q]
       /\ Len(log') >= Len(log) /\ SubSeq(log', 1, Len(log)) = log]_vars

\* an invocation ran to its end in a process whose environment holds the key
C6_Witness ==
    \E p \in Invs : /\ IsDone(p)
                    /\ SecretKey \in DOMAIN EnvOf(p)
                    /\ Len(LinesOf(p)) >= 1

\* C7: two ended invocations of the same process with the same event and the
\* same context have the same outcome.
C7_Idempotent ==
    \A p, q \in Invs :
        (/\ IsDone(p) /\ IsDone(q)
         /\ inv[p].container = inv[q].container
         /\ inv[p].event = inv[q].event
         /\ inv[p].context = inv[q].context) => inv[p].outcome = inv[q].outcome

\* two invocations with the same inputs ended in the same process, the second
\* having logged after the first
C7_Witness ==
    \E p, q \in Invs :
        /\ p # q /\ IsDone(p) /\ IsDone(q)
        /\ inv[p].container = inv[q].container
        /\ inv[p].event = inv[q].event
        /\ inv[p].context = inv[q].context
        /\ \E i, j \in 1..Len(log) : i < j /\ log[i].inv = p /\ log[j].inv = q

\* C8: two ended invocations under equal environments have the same log lines
\* and the same outcome, whatever their events and contexts.
C8_EventContextUnused ==
    \A p, q \in Invs :
        (IsDone(p) /\ IsDone(q) /\ EnvOf(p) = EnvOf(q)) =>
            /\ LinesOf(p) = LinesOf(q)
            /\ inv[p].outcome = inv[q].outcome

\* two invocations ended under equal environments, one with the empty event
\* and context and one with other ones
C8_Witness ==
    \E p, q \in Invs :
        /\ IsDone(p) /\ IsDone(q) /\ EnvOf(p) = EnvOf(q)
        /\ inv[p].event = EmptyEvent /\ inv[p].context = EmptyContext
        /\ inv[q].event = UploadEvent /\ inv[q].context = LambdaContext

\* C9: under every interleaving of the invocations in flight, an invocation
\* that has ended has written its own two lines, the upload line before the
\* secret line, and has returned a Response.
C9_ConcurrentIndependent ==
    \A p \in Invs : IsDone(p) =>
        /\ Len(LinesOf(p)) = 2
        /\ LinesOf(p)[1] = UploadLine
        /\ LinesOf(p)[2] = SecretLine(EnvironGet(EnvOf(p), SecretKey))
        /\ inv[p].outcome.kind = "returned"

\* C10: two ended invocations with the same event and context have the same
\* outcome and the same first log line, whatever the two environments hold.
C10_LocatorNeverReachesCaller ==
    \A p, q \in Invs :
        (/\ IsDone(p) /\ IsDone(q)
         /\ inv[p].event = inv[q].event
         /\ inv[p].context = inv[q].context) =>
            /\ inv[p].outcome = inv[q].outcome
            /\ Len(LinesOf(p)) >= 1 /\ Len(LinesOf(q)) >= 1
            /\ LinesOf(p)[1] = LinesOf(q)[1]

\* two invocations with the same inputs ended, one where the key is set and
\* one where it is unset
C10_Witness ==
    \E p, q \in Invs :
        /\ IsDone(p) /\ IsDone(q)
        /\ inv[p].event = inv[q].event /\ inv[p].context = inv[q].context
        /\ SecretKey \in DOMAIN EnvOf(p)
        /\ SecretKey \notin DOMAIN EnvOf(q)
====
